---- MODULE Spec2Model ----
(***************************************************************************)
(* Write-conflict and reliability core of note-colab:                      *)
(*   - updatePage / createPage controllers (backend/src/controllers/page)  *)
(*   - idempotencyMiddleware (backend/src/middleware/idempotency)          *)
(*   - retryMongoOperation (backend/src/utils/retryMongoOperation)         *)
(*   - ApiClient.request (frontend/src/lib/api.ts)                         *)
(* The document store is modelled as a collection of page documents whose  *)
(* single-document operations (create, findById, findOneAndUpdate) are     *)
(* atomic and may fail; a failed write may or may not have been applied.   *)
(***************************************************************************)
EXTENDS Integers, Sequences, FiniteSets, TLC

\* ------------------------------------------------------------------ bounds
MaxReqs == 2        \* requests received from other clients in one behaviour
MaxFetches == 2     \* requests the ApiClient delivers in one behaviour
MaxOthers == 1      \* updates of another client racing with the ApiClient
MaxPages == 2       \* page documents ever inserted
NumKeys == 1        \* distinct X-Request-ID values in use
MaxSends == 1       \* logical requests issued through the ApiClient
MaxClicks == 2      \* clicks on the page list's create button
MaxDeletes == 1     \* delete-page requests in one behaviour
MaxSaves == 2       \* saves started from the editor
MaxSeeded == 3      \* pages in the workspace when its deletion is requested

\* ------------------------------------------------------------ input values
NoKey == 0                              \* request without X-Request-ID
Keys == 1..NumKeys
Absent == -1                            \* body without __v (undefined)
MaxVersion == 1                         \* largest req.body.__v sent
Versions == {Absent} \cup 0..MaxVersion  \* values of req.body.__v
\* Request bodies (title, content). "c501" stands for a content of 501..5000
\* characters: accepted by updatePageSchema (max 5000), rejected by
\* createPageSchema (max 500) and by the Page model (maxlength 500).
Edit(t, c) == [title |-> t, content |-> c]
OtherEdits == {Edit("t1", "c1"), Edit("t3", "c501")}   \* sent by other clients
ClientEdits == {Edit("t2", "c2")}                      \* sent via the ApiClient
MaxTargets == 1                         \* pages that updates are aimed at
Targets == 1..MaxTargets
WorkspaceId == "w1"
Reqs == 1..(MaxReqs + MaxFetches)
PageIds == 1..(MaxPages + MaxSeeded)
Sends == 1..MaxSends

\* ------------------------------------------------------------------ errors
\* An error as the code inspects it: name, code, and whether its message
\* contains the word 'connection'.
MkErr(n, c, m) == [name |-> n, code |-> c, conn |-> m]
NoErr == MkErr("none", "none", FALSE)
NetErr == MkErr("MongoNetworkError", "none", FALSE)
ServerErr == MkErr("MongoServerError", "none", FALSE)
TimeoutErr == MkErr("MongoTimeoutError", "none", FALSE)
RefusedErr == MkErr("Error", "ECONNREFUSED", FALSE)
TimedOutErr == MkErr("Error", "ETIMEDOUT", FALSE)
ConnMsgErr == MkErr("MongooseError", "none", TRUE)
ValidationErr == MkErr("ValidationError", "none", FALSE)
CastErr == MkErr("CastError", "none", FALSE)

\* Variant: every error is taken for a connection error.
isAnyError(error) == TRUE

isMongoConnectionError(error) ==
    \/ error.name = "MongoNetworkError"
    \/ error.name = "MongoServerError"
    \/ error.name = "MongoTimeoutError"
    \/ error.code = "ECONNREFUSED"
    \/ error.code = "ETIMEDOUT"
    \/ error.conn


\* ----------------------------------------------------- retryMongoOperation
Min(a, b) == IF a < b THEN a ELSE b

\* Options passed by createPage to retryMongoOperation; backoffMultiplier is
\* left to its default.
CreateOpts ==
    [maxRetries |-> 3, initialDelay |-> 1000, maxDelay |-> 10000,
     backoffMultiplier |-> 2]

\* State of one retryMongoOperation call. pc: "call" (operation about to be
\* awaited), "wait" (inside delay), "returned" (with result), "thrown" (with
\* thrown), "idle" (not called). calls and waits record the invocations made
\* and the delays slept.
IdleRetry ==
    [pc |-> "idle", attempt |-> 0, currentDelay |-> 0, lastError |-> NoErr,
     thrown |-> NoErr, result |-> "none", calls |-> 0, waits |-> <<>>]

RetryStart(o) ==
    [IdleRetry EXCEPT !.pc = "call", !.currentDelay = o.initialDelay]

\* await operation() resolved with val: return it
RetryCallOk(w, val) ==
    [w EXCEPT !.pc = "returned", !.result = val, !.calls = @ + 1]

\* Variant: the loop gives up one attempt early.
RetryCallFailEarly(w, o, e) ==
    LET w1 == [w EXCEPT !.lastError = e, !.calls = @ + 1] IN
    IF ~isMongoConnectionError(e)
    THEN [w1 EXCEPT !.pc = "thrown", !.thrown = e]
    ELSE IF w.attempt >= o.maxRetries - 1
         THEN [w1 EXCEPT !.pc = "thrown", !.thrown = w1.lastError]
         ELSE [w1 EXCEPT !.pc = "wait",
                         !.waits = Append(@, Min(w.currentDelay, o.maxDelay))]

\* await operation() rejected with error e: the catch block
RetryCallFail(w, o, e) ==
    LET w1 == [w EXCEPT !.lastError = e, !.calls = @ + 1] IN
    IF ~isMongoConnectionError(e)
    THEN [w1 EXCEPT !.pc = "thrown", !.thrown = e]
    ELSE IF w.attempt = o.maxRetries
         THEN [w1 EXCEPT !.pc = "thrown", !.thrown = w1.lastError]
         ELSE [w1 EXCEPT !.pc = "wait",
                         !.waits = Append(@, Min(w.currentDelay, o.maxDelay))]

\* Variant: currentDelay += initialDelay.
RetryDelayDoneLinear(w, o) ==
    [w EXCEPT !.pc = "call", !.attempt = @ + 1,
              !.currentDelay = @ + o.initialDelay]

\* delay(delayTime) elapsed: currentDelay *= backoffMultiplier; attempt++
RetryDelayDone(w, o) ==
    [w EXCEPT !.pc = "call", !.attempt = @ + 1,
              !.currentDelay = @ * o.backoffMultiplier]

\* ---------------------------------------------------------- response bodies
Field(b, f, d) == IF f \in DOMAIN b THEN b[f] ELSE d

NullData == [tag |-> "null"]
NoEntry == [tag |-> "none"]
NoResp == [status |-> 0, body |-> NoEntry]

PageData(id, pg) ==
    [tag |-> "page", id |-> id, title |-> pg.title, content |-> pg.content,
     v |-> pg.v, workspaceId |-> pg.workspaceId]

OkBody(d) == [success |-> TRUE, data |-> d]
ReplayBody(cached) ==
    [success |-> TRUE, message |-> "Request processed successfully",
     data |-> cached]
\* Variant: the descriptor reports the client's version as the server's.
ConflictBodyEchoesClient(sv, cv, sc, cc) ==
    [success |-> FALSE, message |-> "Page version mismatch",
     serverVersion |-> cv, clientVersion |-> cv,
     serverContent |-> sc, clientContent |-> cc]

ConflictBody(sv, cv, sc, cc) ==
    [success |-> FALSE, message |-> "Page version mismatch",
     serverVersion |-> sv, clientVersion |-> cv,
     serverContent |-> sc, clientContent |-> cc]
NotFoundBody == [success |-> FALSE, message |-> "Page not found"]
UnavailableBody ==
    [success |-> FALSE, error |-> "Service temporarily unavailable",
     message |-> "Database connection lost. Please retry.", retryAfter |-> 5]
InternalBody(e) ==
    [success |-> FALSE, error |-> "Internal server error", message |-> e.name]
ValidationBody ==
    [success |-> FALSE, message |-> "Validation Error", errors |-> "body"]

\* ------------------------------------------------------------------- state
VARIABLES
    pages,      \* the pages collection: PageIds -> document
    npages,     \* documents inserted so far (the next _id is npages + 1)
    cache,      \* requestCache of the idempotency middleware: key -> body
    reqs,       \* server-side requests: Reqs -> request record
    nreq,       \* requests received so far
    sends,      \* ApiClient.request calls: Sends -> coordinator record
    rw,         \* a stand-alone retryMongoOperation call
    ropts,      \* its options
    rlog,       \* outcomes of its invocations, in order
    editor,     \* the PageEditor component showing page 1
    ws          \* the workspace document and the request deleting it

vars ==
    <<pages, npages, cache, reqs, nreq, sends, rw, ropts, rlog, editor, ws>>
serverVars == <<pages, npages, cache, reqs, nreq, ws>>
retryVars == <<rw, ropts, rlog>>

\* A slot of the collection. byKey, bySend and byReq are history: the
\* X-Request-ID, ApiClient call and request that inserted the document.
NoPage ==
    [exists |-> FALSE, title |-> "", content |-> "", v |-> 0,
     workspaceId |-> "", byKey |-> NoKey, bySend |-> 0, byReq |-> 0]

\* A request slot. pc: "free", "read" (awaiting findById), "write" (awaiting
\* findOneAndUpdate), "op" (inside retryMongoOperation), "done".
\* send/attempt: the ApiClient call and retryCount that issued it (0: a
\* request from another client). The remaining fields are history:
\*   invoked       the controller ran
\*   commits       writes of this request the store applied
\*   snapV, snapC  version and content of the document findById returned
\*   wroteAt       version the document had when this request's write applied
\*   storageErr    a storage call of this request rejected
\*   staleAtStart  an earlier attempt of the same ApiClient call had
\*                 committed when this one arrived
\*   replayOf      the first request with the same X-Request-ID that had
\*                 been answered when this one arrived (0: none)
FreeReq ==
    [pc |-> "free", kind |-> "none", key |-> NoKey, pageId |-> 0,
     title |-> "", content |-> "", ver |-> Absent, rw |-> IdleRetry,
     resp |-> NoResp, send |-> 0, attempt |-> 0, invoked |-> FALSE,
     commits |-> 0, snapV |-> Absent, snapC |-> "", wroteAt |-> Absent,
     storageErr |-> FALSE, staleAtStart |-> FALSE, replayOf |-> 0]


\* ---------------------------------------------------- request validation
\* validate(createPageSchema) / validate(updatePageSchema) on the body.
ValidBody(kind, title, content) ==
    IF kind = "create" THEN content # "c501" ELSE TRUE

\* Page model validators (maxlength 500 on content), run by create and by
\* findOneAndUpdate with runValidators.
ModelValid(content) == content # "c501"

\* ------------------------------------------------- idempotencyMiddleware
\* Variant: the lookup is skipped and every request is passed on.
CacheHitNever(key) == FALSE

\* requestCache.has(key), asked for requests that carry a request id.
CacheHit(key) == key # NoKey /\ cache[key] # NoEntry

\* Variant: a response without request id is stored under the first key.
CacheSetAlways(r, body) ==
    [cache EXCEPT ![IF r.key # NoKey THEN r.key ELSE 1] = body]

\* res.json as overridden by the middleware: requestCache.set(key, data).
CacheSet(r, body) ==
    IF r.key # NoKey THEN [cache EXCEPT ![r.key] = body] ELSE cache

Done(r, status, body) ==
    [r EXCEPT !.pc = "done", !.resp = [status |-> status, body |-> body]]

\* A request enters the application: idempotencyMiddleware, then validate,
\* then the controller up to its first await.
Arrive(kind, key, pageId, title, content, ver, send, attempt) ==
    LET r0 == [FreeReq EXCEPT
                 !.kind = kind, !.key = key, !.pageId = pageId,
                 !.title = title, !.content = content, !.ver = ver,
                 !.send = send, !.attempt = attempt,
                 !.staleAtStart =
                     send # 0 /\ \E j \in 1..nreq :
                         reqs[j].send = send /\ reqs[j].commits > 0,
                 !.replayOf =
                     LET prior == {j \in 1..nreq :
                                     /\ key # NoKey
                                     /\ reqs[j].key = key
                                     /\ reqs[j].pc = "done"}
                     IN  IF prior = {} THEN 0
                         ELSE CHOOSE j \in prior : \A k \in prior : j <= k]
    IN  IF CacheHit(key)
        THEN Done(r0, 200, ReplayBody(cache[key]))
        ELSE IF ~ValidBody(kind, title, content)
        THEN Done(r0, 400, ValidationBody)
        ELSE IF kind = "update"
        THEN [r0 EXCEPT !.pc = "read", !.invoked = TRUE]
        ELSE [r0 EXCEPT !.pc = "op", !.invoked = TRUE,
                        !.rw = RetryStart(CreateOpts)]

ArriveCache(kind, key, title, content) ==
    IF ~CacheHit(key) /\ ~ValidBody(kind, title, content) /\ key # NoKey
    THEN [cache EXCEPT ![key] = ValidationBody]
    ELSE cache

\* Requests received so far from other clients / from the ApiClient.
NumOthers ==
    Cardinality({j \in 1..nreq : reqs[j].send = 0 /\ reqs[j].kind # "delete"})
NumFetches == Cardinality({j \in 1..nreq : reqs[j].send # 0})

\* A request issued by some other client, outside the ApiClient; a create
\* body carries a __v of createVers (Absent: none).
ReceiveWith(createVers) ==
    /\ NumOthers < MaxReqs
    /\ \E kind \in {"create", "update"}, key \in {NoKey} \cup Keys,
          pageId \in Targets, ed \in OtherEdits, ver \in Versions :
         /\ kind = "create" => pageId = 1 /\ ver \in createVers
         /\ reqs' = [reqs EXCEPT ![nreq + 1] =
                Arrive(kind, key, IF kind = "create" THEN 0 ELSE pageId,
                       ed.title, ed.content, ver, 0, 0)]
         /\ cache' = ArriveCache(kind, key, ed.title, ed.content)
    /\ nreq' = nreq + 1
    /\ UNCHANGED <<pages, npages, sends, retryVars, editor, ws>>

\* Requests whose create bodies carry no __v.
Receive == ReceiveWith({Absent})

\* Requests whose create bodies may carry a __v.
ReceiveAnyVersion == ReceiveWith(Versions)

\* A keyless update of the seeded page by another client while the ApiClient
\* is at work.
OtherUpdate ==
    /\ NumOthers < MaxOthers
    /\ \E ver \in 0..MaxVersion :
         /\ reqs' = [reqs EXCEPT ![nreq + 1] =
                Arrive("update", NoKey, 1, "t1", "c1", ver, 0, 0)]
         /\ cache' = ArriveCache("update", NoKey, "t1", "c1")
    /\ nreq' = nreq + 1
    /\ UNCHANGED <<pages, npages, sends, retryVars, editor, ws>>

\* -------------------------------------------------------------- updatePage
\* await Page.findById(pageId) settles, and the code up to the next await.
UpdateRead(i) ==
    LET r == reqs[i]
        pageExist == pages[r.pageId]
    IN
    /\ r.pc = "read"
    /\ \/ \* findById rejects: the catch block answers 500
          /\ reqs' = [reqs EXCEPT ![i] =
                 [Done(r, 500, InternalBody(NetErr)) EXCEPT !.storageErr = TRUE]]
          /\ cache' = CacheSet(r, InternalBody(NetErr))
       \/ /\ ~pageExist.exists
          /\ reqs' = [reqs EXCEPT ![i] = Done(r, 404, NotFoundBody)]
          /\ cache' = CacheSet(r, NotFoundBody)
       \/ /\ pageExist.exists
          /\ pageExist.v # r.ver
          /\ LET b == ConflictBody(pageExist.v, r.ver, pageExist.content,
                                   r.content)
             IN /\ reqs' = [reqs EXCEPT ![i] =
                        [Done(r, 409, b) EXCEPT !.snapV = pageExist.v,
                                                !.snapC = pageExist.content]]
                /\ cache' = CacheSet(r, b)
       \/ /\ pageExist.exists
          /\ pageExist.v = r.ver
          /\ reqs' = [reqs EXCEPT ![i] =
                 [r EXCEPT !.pc = "write", !.snapV = pageExist.v,
                           !.snapC = pageExist.content]]
          /\ cache' = cache
    /\ UNCHANGED <<pages, npages, nreq, sends, retryVars, editor, ws>>

\* Variant: the filter holds the id only.
MatchesIdOnly(pg, r) == pg.exists

\* The filter { _id: pageId, __v: req.body.__v } of findOneAndUpdate.
Matches(pg, r) == pg.exists /\ pg.v = r.ver

\* Variant: the document is replaced by one built from the request.
ApplyUpdateReplace(pg, r) ==
    [NoPage EXCEPT !.exists = TRUE, !.title = r.title, !.content = r.content,
                   !.v = pg.v + 1]

\* Variant: the update lacks $inc.
ApplyUpdateNoInc(pg, r) ==
    [pg EXCEPT !.title = r.title, !.content = r.content]

\* The update { $set: { title, content }, $inc: { __v: 1 } }.
ApplyUpdate(pg, r) ==
    [pg EXCEPT !.title = r.title, !.content = r.content, !.v = @ + 1]

\* await Page.findOneAndUpdate(...) settles, and the rest of the handler.
UpdateWrite(i) ==
    LET r == reqs[i]
        pg == pages[r.pageId]
        upd == ApplyUpdate(pg, r)
    IN
    /\ r.pc = "write"
    /\ \/ \* runValidators rejects the $set before anything is written
          /\ ~ModelValid(r.content)
          /\ reqs' = [reqs EXCEPT ![i] = Done(r, 500, InternalBody(ValidationErr))]
          /\ cache' = CacheSet(r, InternalBody(ValidationErr))
          /\ pages' = pages
       \/ \* one document matched: it is updated atomically and returned
          /\ ModelValid(r.content)
          /\ Matches(pg, r)
          /\ pages' = [pages EXCEPT ![r.pageId] = upd]
          /\ LET b == OkBody(PageData(r.pageId, upd))
             IN /\ reqs' = [reqs EXCEPT ![i] =
                        [Done(r, 200, b) EXCEPT !.commits = @ + 1,
                                                !.wroteAt = pg.v]]
                /\ cache' = CacheSet(r, b)
       \/ \* no document matched: findOneAndUpdate resolves to null
          /\ ModelValid(r.content)
          /\ ~Matches(pg, r)
          /\ pages' = pages
          /\ reqs' = [reqs EXCEPT ![i] = Done(r, 200, OkBody(NullData))]
          /\ cache' = CacheSet(r, OkBody(NullData))
       \/ \* the call rejects (connection lost); the write was not applied
          /\ ModelValid(r.content)
          /\ pages' = pages
          /\ reqs' = [reqs EXCEPT ![i] =
                 [Done(r, 500, InternalBody(NetErr)) EXCEPT !.storageErr = TRUE]]
          /\ cache' = CacheSet(r, InternalBody(NetErr))
       \/ \* the call rejects after the store applied the write
          /\ ModelValid(r.content)
          /\ Matches(pg, r)
          /\ pages' = [pages EXCEPT ![r.pageId] = upd]
          /\ reqs' = [reqs EXCEPT ![i] =
                 [Done(r, 500, InternalBody(NetErr)) EXCEPT
                     !.commits = @ + 1, !.wroteAt = pg.v,
                     !.storageErr = TRUE]]
          /\ cache' = CacheSet(r, InternalBody(NetErr))
    /\ UNCHANGED <<npages, nreq, sends, retryVars, editor, ws>>


\* -------------------------------------------------------------- createPage
\* Errors Page.create is taken to reject with.
CreateErrors == {NetErr, RefusedErr, ConnMsgErr, ValidationErr}

\* Variant: the inserted document takes the version of the request body.
NewPageBodyVersion(r, i) ==
    [exists |-> TRUE, title |-> r.title, content |-> r.content,
     v |-> IF r.ver # Absent THEN r.ver ELSE 0,
     workspaceId |-> WorkspaceId, byKey |-> r.key,
     bySend |-> r.send, byReq |-> i]

\* Page.create({ ...req.body, workspaceId: req.params.id }): the inserted
\* document; Mongoose sets the version key of an inserted document
\* to 0, whatever __v the body carried.
NewPage(r, i) ==
    [exists |-> TRUE, title |-> r.title, content |-> r.content, v |-> 0,
     workspaceId |-> WorkspaceId, byKey |-> r.key,
     bySend |-> r.send, byReq |-> i]

\* The catch block of createPage.
CreateFailure(error) ==
    IF error.name \in {"MongoNetworkError", "MongoServerError", "MongoTimeoutError"}
    THEN [status |-> 503, body |-> UnavailableBody]
    ELSE [status |-> 500, body |-> InternalBody(error)]

\* retryMongoOperation's await operation() settles; when the wrapper returns
\* or throws, the rest of createPage runs.
CreateCall(i) ==
    LET r == reqs[i]
        doc == NewPage(r, i)
        Failed(e) ==
            LET w == RetryCallFail(r.rw, CreateOpts, e)
                f == CreateFailure(w.thrown)
            IN  IF w.pc = "thrown"
                THEN /\ reqs' = [reqs EXCEPT ![i] =
                            [Done(r, f.status, f.body) EXCEPT
                                !.rw = w, !.storageErr = TRUE,
                                !.commits = IF pages' # pages THEN @ + 1 ELSE @]]
                     /\ cache' = CacheSet(r, f.body)
                ELSE /\ reqs' = [reqs EXCEPT ![i] =
                            [r EXCEPT !.rw = w, !.storageErr = TRUE,
                                !.commits = IF pages' # pages THEN @ + 1 ELSE @]]
                     /\ cache' = cache
    IN
    /\ r.pc = "op"
    /\ r.rw.pc = "call"
    /\ \/ \* the document is inserted and returned
          /\ npages < MaxPages
          /\ pages' = [pages EXCEPT ![npages + 1] = doc]
          /\ npages' = npages + 1
          /\ LET b == OkBody(PageData(npages + 1, doc))
             IN /\ reqs' = [reqs EXCEPT ![i] =
                        [Done(r, 201, b) EXCEPT
                            !.rw = RetryCallOk(r.rw, "doc"), !.commits = @ + 1]]
                /\ cache' = CacheSet(r, b)
       \/ \* the call rejects; nothing was inserted
          /\ pages' = pages
          /\ npages' = npages
          /\ \E e \in CreateErrors : Failed(e)
       \/ \* the call rejects (connection lost) after the insert was applied
          /\ npages < MaxPages
          /\ pages' = [pages EXCEPT ![npages + 1] = doc]
          /\ npages' = npages + 1
          /\ Failed(NetErr)
    /\ UNCHANGED <<nreq, sends, retryVars, editor, ws>>

\* retryMongoOperation's await delay(delayTime) elapses.
CreateDelay(i) ==
    LET r == reqs[i] IN
    /\ r.pc = "op"
    /\ r.rw.pc = "wait"
    /\ reqs' = [reqs EXCEPT ![i] =
           [r EXCEPT !.rw = RetryDelayDone(r.rw, CreateOpts)]]
    /\ UNCHANGED <<pages, npages, cache, nreq, sends, retryVars, editor, ws>>


\* -------------------------------------------------------------- deletePage
NumDeletes == Cardinality({j \in 1..nreq : reqs[j].kind = "delete"})

DeletedBody == [success |-> TRUE, message |-> "Page deleted successfully"]

\* Variant: the document stays in the collection.
RemovePageKeep(p) == pages

\* The document removed by Page.findByIdAndDelete(pageId).
RemovePage(p) == [pages EXCEPT ![p] = NoPage]

\* DELETE /workspaces/:id/pages/:pageId sent without request id: one
\* findByIdAndDelete, which takes no version, then 404 or 200. A rejection
\* reaches the error handler (500), the document removed or not.
DeletePage ==
    /\ NumDeletes < MaxDeletes
    /\ nreq < MaxReqs + MaxFetches
    /\ \E pageId \in Targets :
         LET r0 == [FreeReq EXCEPT !.kind = "delete", !.pageId = pageId,
                                   !.invoked = TRUE,
                                   !.snapV = IF pages[pageId].exists
                                             THEN pages[pageId].v ELSE Absent]
         IN  \/ /\ ~pages[pageId].exists
                /\ reqs' = [reqs EXCEPT ![nreq + 1] = Done(r0, 404, NotFoundBody)]
                /\ pages' = pages
             \/ /\ pages[pageId].exists
                /\ reqs' = [reqs EXCEPT ![nreq + 1] =
                       [Done(r0, 200, DeletedBody) EXCEPT !.commits = 1]]
                /\ pages' = RemovePage(pageId)
             \/ /\ reqs' = [reqs EXCEPT ![nreq + 1] =
                       [Done(r0, 500, InternalBody(NetErr)) EXCEPT
                           !.storageErr = TRUE]]
                /\ pages' \in {pages, RemovePage(pageId)}
    /\ nreq' = nreq + 1
    /\ UNCHANGED <<npages, cache, sends, retryVars, editor, ws>>

\* ------------------------------------------------------------ workspace page
\* Requests sent by the page list's create button are marked with ClickSend.
ClickSend == MaxSends + 1
NumClicks == Cardinality({j \in 1..nreq : reqs[j].send = ClickSend})

\* handleCreatePage up to its await: pageApi.create -> apiClient.post ->
\* fetch with the headers of ApiClient.request, which hold no X-Request-ID.
\* Nothing disables the button while a create is in flight.
HandleCreatePage ==
    /\ NumClicks < MaxClicks
    /\ nreq < MaxReqs + MaxFetches
    /\ reqs' = [reqs EXCEPT ![nreq + 1] =
           Arrive("create", NoKey, 0, "Untitled Page", "", Absent,
                  ClickSend, 0)]
    /\ cache' = ArriveCache("create", NoKey, "Untitled Page", "")
    /\ nreq' = nreq + 1
    /\ UNCHANGED <<pages, npages, sends, retryVars, editor, ws>>

\* --------------------------------------------------------------- ApiClient
RECURSIVE Pow(_, _)
Pow(b, n) == IF n = 0 THEN 1 ELSE b * Pow(b, n - 1)

\* retryOptions set by the ApiClient constructor.
ClientOpts ==
    [maxRetries |-> 3, initialDelay |-> 1000, maxDelay |-> 10000,
     backoffMultiplier |-> 2]

\* Variant: a conflict is retried as well.
shouldRetryStatusOr409(status) == status \in {503, 502, 504, 429, 409}

\* shouldRetry(error, status) for an HTTP response.
shouldRetryStatus(status) == status \in {503, 502, 504, 429}

\* The computed backoff: min(initialDelay * multiplier^retryCount, maxDelay).
Backoff(retryCount) ==
    Min(ClientOpts.initialDelay * Pow(ClientOpts.backoffMultiplier, retryCount),
        ClientOpts.maxDelay)

\* delayTime after a retryable response; retryAfter 0 stands for a body
\* without retryAfter (both are falsy).
ResponseDelay(retryAfter, retryCount) ==
    IF retryAfter # 0
    THEN Min(retryAfter * 1000, ClientOpts.maxDelay)
    ELSE Backoff(retryCount)

\* One call of apiClient.post / apiClient.put. pc: "idle", "ready" (about to
\* fetch), "inflight" (awaiting fetch), "backoff" (awaiting delay),
\* "succeeded" (returned data), "thrown" (rejected with error). cur is the
\* server request of the current attempt; status the HTTP status of the last
\* response (0: none); body what response.json() gave in the current call of
\* request; delays the waits so far; fetches the calls of fetch.
IdleSend ==
    [pc |-> "idle", kind |-> "none", pageId |-> 0, title |-> "",
     content |-> "", ver |-> Absent, retryCount |-> 0, cur |-> 0,
     status |-> 0, body |-> NoEntry, data |-> NoEntry, error |-> NoEntry,
     delays |-> <<>>, fetches |-> 0]

NetworkError ==
    [success |-> FALSE, message |-> "Network error. Please check your connection."]

\* pageApi.create -> apiClient.post: the caller starts a logical create.
ClientPost(s) ==
    /\ sends[s].pc = "idle"
    /\ \E ed \in ClientEdits :
         sends' = [sends EXCEPT ![s] =
             [IdleSend EXCEPT !.pc = "ready", !.kind = "create",
                 !.title = ed.title, !.content = ed.content]]
    /\ UNCHANGED <<serverVars, retryVars, editor>>

\* pageApi.update -> apiClient.put: the caller starts a logical update.
ClientPut(s) ==
    /\ sends[s].pc = "idle"
    /\ \E pageId \in Targets, ed \in ClientEdits, ver \in Versions :
         sends' = [sends EXCEPT ![s] =
             [IdleSend EXCEPT !.pc = "ready", !.kind = "update",
                 !.pageId = pageId, !.title = ed.title,
                 !.content = ed.content, !.ver = ver]]
    /\ UNCHANGED <<serverVars, retryVars, editor>>

\* fetch(url, config) reaches the server. post and put send no X-Request-ID.
ClientFetch(s) ==
    LET c == sends[s] IN
    /\ c.pc = "ready"
    /\ NumFetches < MaxFetches
    /\ reqs' = [reqs EXCEPT ![nreq + 1] =
           Arrive(c.kind, NoKey, c.pageId, c.title, c.content, c.ver, s,
                  c.retryCount)]
    /\ cache' = ArriveCache(c.kind, NoKey, c.title, c.content)
    /\ nreq' = nreq + 1
    /\ sends' = [sends EXCEPT ![s] =
           [c EXCEPT !.pc = "inflight", !.cur = nreq + 1, !.fetches = @ + 1]]
    /\ UNCHANGED <<pages, npages, retryVars, editor, ws>>

\* Variant: the catch block allows retryCount <= maxRetries.
HandleFetchFailOneMore(c) ==
    IF c.retryCount <= ClientOpts.maxRetries
    THEN [c EXCEPT !.pc = "backoff", !.status = 0,
                   !.delays = Append(@, Backoff(c.retryCount))]
    ELSE [c EXCEPT !.pc = "thrown", !.status = 0, !.error = NetworkError]

\* The catch block of request for a TypeError 'Failed to fetch': retry or
\* throw the normalized network error.
HandleFetchFail(c) ==
    IF c.retryCount < ClientOpts.maxRetries
    THEN [c EXCEPT !.pc = "backoff", !.status = 0,
                   !.delays = Append(@, Backoff(c.retryCount))]
    ELSE [c EXCEPT !.pc = "thrown", !.status = 0, !.error = NetworkError]

\* fetch rejects with TypeError 'Failed to fetch': before the request reached
\* the server, or while the server is handling it, or after it answered.
ClientFetchFail(s) ==
    LET c == sends[s]
        called == [c EXCEPT !.fetches = IF c.pc = "ready" THEN @ + 1 ELSE @]
    IN
    /\ c.pc \in {"ready", "inflight"}
    /\ sends' = [sends EXCEPT ![s] = HandleFetchFail(called)]
    /\ UNCHANGED <<serverVars, retryVars, editor>>

\* fetch resolved with HTTP status `status` and response.json() gave `data`.
HandleResponse(c, status, data) ==
    LET ok == status \in 200..299
        error == [success |-> FALSE, message |-> Field(data, "message", ""),
                  errors |-> Field(data, "errors", ""),
                  retryAfter |-> Field(data, "retryAfter", 0)]
    IN
    IF ~ok \/ ~Field(data, "success", FALSE)
    THEN IF shouldRetryStatus(status) /\ c.retryCount < ClientOpts.maxRetries
         THEN [c EXCEPT !.pc = "backoff", !.status = status, !.body = data,
                 !.delays = Append(@,
                     ResponseDelay(Field(data, "retryAfter", 0), c.retryCount))]
         ELSE [c EXCEPT !.pc = "thrown", !.status = status, !.body = data,
                        !.error = error]
    ELSE [c EXCEPT !.pc = "succeeded", !.status = status, !.body = data,
                   !.data = Field(data, "data", NullData)]

\* response.json() rejects (the body is no JSON): the catch block rethrows.
HandleUnparsable(c, status) ==
    [c EXCEPT !.pc = "thrown", !.status = status,
              !.error = [name |-> "SyntaxError"]]

\* fetch resolves with the server's response; response.json() is inspected.
ClientResponse(s) ==
    LET c == sends[s]
        resp == reqs[c.cur].resp
    IN
    /\ c.pc = "inflight"
    /\ reqs[c.cur].pc = "done"
    /\ sends' = [sends EXCEPT ![s] = HandleResponse(c, resp.status, resp.body)]
    /\ UNCHANGED <<serverVars, retryVars, editor>>

\* request has returned or thrown.
Terminated(c) == c.pc \in {"succeeded", "thrown"}

\* await this.delay(delayTime) elapses: this.request(..., retryCount + 1).
ClientDelayDone(s) ==
    LET c == sends[s] IN
    /\ c.pc = "backoff"
    /\ sends' = [sends EXCEPT ![s] =
           [c EXCEPT !.pc = "ready", !.retryCount = @ + 1, !.cur = 0,
                     !.body = NoEntry]]
    /\ UNCHANGED <<serverVars, retryVars, editor>>

\* --------------------------------------------------------- deleteWorkspace
\* The workspace document and the DELETE /workspaces/:id request: pc "idle"
\* (not received), "query" (the pre hook has run), "done" (answered). existed
\* keeps whether the document was there when the request arrived, hook how
\* Page.deleteMany settled ("none": not yet).
LiveWorkspace ==
    [exists |-> TRUE, existed |-> TRUE, pc |-> "idle", status |-> 0,
     hook |-> "none"]
\* A workspace id whose document is gone already.
GoneWorkspace == [LiveWorkspace EXCEPT !.exists = FALSE, !.existed = FALSE]

References(pg, id) == pg.exists /\ pg.workspaceId = id

\* Page.deleteMany({ workspaceId }) applied to the collection.
WithoutPagesOf(id) ==
    [p \in PageIds |->
        IF References(pages[p], id)
        THEN [pages[p] EXCEPT !.exists = FALSE] ELSE pages[p]]

\* Variant: the hook calls next() whether or not deleteMany rejected.
DeleteHookIgnoringFailure ==
    /\ ws.pc = "idle"
    /\ \/ /\ pages' = WithoutPagesOf(WorkspaceId)
          /\ ws' = [ws EXCEPT !.pc = "query", !.hook = "ok"]
       \/ /\ pages' \in {pages, WithoutPagesOf(WorkspaceId)}
          /\ ws' = [ws EXCEPT !.pc = "query", !.hook = "failed"]
    /\ UNCHANGED <<npages, cache, reqs, nreq, sends, retryVars, editor>>

\* Workspace.findByIdAndDelete(id) starts: the pre('findOneAndDelete') hook
\* awaits Page.deleteMany({ workspaceId }); when that rejects (before or
\* after it was applied), next(error) fails the query and the request is
\* answered 500.
DeleteHook ==
    /\ ws.pc = "idle"
    /\ \/ /\ pages' = WithoutPagesOf(WorkspaceId)
          /\ ws' = [ws EXCEPT !.pc = "query", !.hook = "ok"]
       \/ /\ pages' \in {pages, WithoutPagesOf(WorkspaceId)}
          /\ ws' = [ws EXCEPT !.pc = "done", !.status = 500,
                              !.hook = "failed"]
    /\ UNCHANGED <<npages, cache, reqs, nreq, sends, retryVars, editor>>

\* The findOneAndDelete itself settles and deleteWorkspace answers: 200 when
\* the document was found and removed, 404 when there was none, 500 when the
\* query rejects (before or after the document was removed).
DeleteQuery ==
    /\ ws.pc = "query"
    /\ \/ ws' = [ws EXCEPT !.pc = "done", !.exists = FALSE,
                           !.status = IF ws.exists THEN 200 ELSE 404]
       \/ \E applied \in BOOLEAN :
            ws' = [ws EXCEPT !.pc = "done", !.status = 500,
                             !.exists = IF applied THEN FALSE ELSE @]
    /\ UNCHANGED <<pages, npages, cache, reqs, nreq, sends, retryVars, editor>>

\* -------------------------------------------------------------- PageEditor
\* The send that carries the editor's saves, and the page it shows.
EditorSend == 1
EditorPage == 1

\* The component's state: pc "idle" or "saving"; title and content typed by
\* the user; pageV the __v of the page prop; conflictError (null: NoEntry);
\* toast the last toast; err the error caught by handleSave; resolving: the
\* save in flight was started by handleResolveConflict(false); pageTitle the
\* title of the page prop.
IdleEditor ==
    [pc |-> "idle", title |-> "t0", content |-> "c0", pageV |-> 0,
     conflictError |-> NoEntry, toast |-> "none", err |-> NoEntry, saves |-> 0,
     resolving |-> FALSE, pageTitle |-> "t0"]

\* handleSave(overrideVersion): onSave -> handleSavePage -> pageApi.update ->
\* apiClient.put with __v = overrideVersion, or page.__v || 0 without one.
StartSave(ed, overrideVersion) ==
    /\ sends[EditorSend].pc = "idle"
    /\ ed.saves < MaxSaves
    /\ sends' = [sends EXCEPT ![EditorSend] =
           [IdleSend EXCEPT !.pc = "ready", !.kind = "update",
               !.pageId = EditorPage, !.title = ed.title,
               !.content = ed.content,
               !.ver = IF overrideVersion # Absent THEN overrideVersion
                       ELSE ed.pageV]]
    /\ editor' = [ed EXCEPT !.pc = "saving", !.saves = @ + 1]

\* The user acts on the component: types an edit and clicks Save, or, while
\* the conflict dialog is open (conflictError set), picks one of its buttons.
EditorClick ==
    /\ editor.pc = "idle"
    /\ \/ \* handleSaveClick
          /\ editor.conflictError = NoEntry
          /\ \E e \in ClientEdits :
               StartSave([editor EXCEPT !.title = e.title,
                                        !.content = e.content], Absent)
       \/ \* handleResolveConflict(false): keep the local edits
          /\ editor.conflictError # NoEntry
          /\ StartSave([editor EXCEPT !.conflictError = NoEntry,
                                       !.resolving = TRUE],
                       editor.conflictError.serverVersion)
       \/ \* handleResolveConflict(true): reload the page from the server,
          \* or fall back to the descriptor when getById fails. The page
          \* view mounts the editor without onPageChange, so the page prop
          \* (pageV, pageTitle) stays as it was.
          /\ editor.conflictError # NoEntry
          /\ \/ /\ pages[EditorPage].exists
                /\ editor' = [editor EXCEPT !.conflictError = NoEntry,
                        !.title = pages[EditorPage].title,
                        !.content = pages[EditorPage].content,
                        !.toast = "reloaded"]
             \/ editor' = [editor EXCEPT !.conflictError = NoEntry,
                        !.title = editor.pageTitle,
                        !.content = editor.conflictError.serverContent,
                        !.toast = "reloaded (may be cached)"]
          /\ sends' = sends
    /\ UNCHANGED <<serverVars, retryVars>>

\* onSave settles: on success handleSavePage refetches the pages and the
\* editor toasts; on a rejection the catch block of handleSave looks for
\* serverVersion and clientVersion on the error.
\* The editor after onSave resolved (succeeded) or rejected with error.
HandleSaveOutcome(ed, succeeded, error) ==
    LET handled ==
            IF succeeded
            THEN [ed EXCEPT !.pc = "idle", !.toast = "saved", !.err = NoEntry,
                    !.pageV = IF pages[EditorPage].exists
                              THEN pages[EditorPage].v ELSE @,
                    !.pageTitle = IF pages[EditorPage].exists
                                  THEN pages[EditorPage].title ELSE @]
            ELSE IF "serverVersion" \in DOMAIN error
                    /\ "clientVersion" \in DOMAIN error
                 THEN [ed EXCEPT !.pc = "idle", !.conflictError = error,
                                 !.err = error]
                 ELSE [ed EXCEPT !.pc = "idle", !.toast = "failed",
                                 !.err = error]
    IN  IF ed.resolving
        THEN \* handleSave has returned without throwing: the try block of
             \* handleResolveConflict goes on to its 'Page updated' toast
             [handled EXCEPT !.toast = "saved", !.resolving = FALSE]
        ELSE handled

EditorSettled ==
    LET c == sends[EditorSend] IN
    /\ editor.pc = "saving"
    /\ Terminated(c)
    /\ editor' = HandleSaveOutcome(editor, c.pc = "succeeded", c.error)
    /\ sends' = [sends EXCEPT ![EditorSend] =
           [IdleSend EXCEPT !.status = c.status, !.body = c.body]]
    /\ UNCHANGED <<serverVars, retryVars>>

\* The editor mounted with an onSave that sends the update and rejects with
\* the body of a response that is not a success.
OnSaveSettled ==
    LET c == sends[EditorSend]
        resp == reqs[c.cur].resp
    IN
    /\ editor.pc = "saving"
    /\ c.pc = "inflight"
    /\ reqs[c.cur].pc = "done"
    /\ editor' = HandleSaveOutcome(editor, resp.status \in 200..299, resp.body)
    /\ sends' = [sends EXCEPT ![EditorSend] =
           [IdleSend EXCEPT !.status = resp.status, !.body = resp.body]]
    /\ UNCHANGED <<serverVars, retryVars>>

\* ------------------------------------------------- ApiClient, any server
\* The one send followed when the responses are drawn freely.
StubSend == 1
StubStatuses == {200, 201, 400, 401, 403, 404, 409, 429, 500, 502, 503, 504}
\* retryAfter values (seconds) a response may carry.
StubHints == {0, 2, 5, 30}

\* Response bodies of the envelope { success, message, data?, retryAfter? }.
StubBodies(status) ==
    LET base == IF status \in 200..299
                THEN [success |-> TRUE, data |-> NullData]
                ELSE [success |-> FALSE, message |-> "m"]
    IN  {base} \cup
        (IF status \in 200..299 THEN {}
         ELSE {[success |-> FALSE, message |-> "m", retryAfter |-> h] :
                   h \in StubHints})

\* fetch(url, config) is called; the request is on its way.
StubFetch ==
    LET c == sends[StubSend] IN
    /\ c.pc = "ready"
    /\ sends' = [sends EXCEPT ![StubSend] =
           [c EXCEPT !.pc = "inflight", !.fetches = @ + 1]]
    /\ UNCHANGED <<serverVars, retryVars, editor>>

\* fetch rejects with TypeError 'Failed to fetch'.
StubFetchFail ==
    LET c == sends[StubSend] IN
    /\ c.pc = "inflight"
    /\ sends' = [sends EXCEPT ![StubSend] = HandleFetchFail(c)]
    /\ UNCHANGED <<serverVars, retryVars, editor>>

\* fetch resolves with some status and body, or with a body that is no JSON.
StubResponse ==
    LET c == sends[StubSend] IN
    /\ c.pc = "inflight"
    /\ \E status \in StubStatuses :
         \/ \E data \in StubBodies(status) :
              sends' = [sends EXCEPT ![StubSend] =
                            HandleResponse(c, status, data)]
         \/ sends' = [sends EXCEPT ![StubSend] = HandleUnparsable(c, status)]
    /\ UNCHANGED <<serverVars, retryVars, editor>>

\* ------------------------------------------- stand-alone retryMongoOperation
\* Bounds of the options and outcomes tried on the stand-alone call.
MaxRetriesTried == 3
InitialDelays == {1000, 3000}
MaxDelays == {10000, 5000}
Multipliers == {2, 3}
OpErrors ==
    {NetErr, ServerErr, TimeoutErr, RefusedErr, TimedOutErr, ConnMsgErr,
     ValidationErr, CastErr}
OpValues == {"r1", "r2"}
OkOutcome(val) == MkErr("ok", val, FALSE)  \* operation() resolved with val

RetryCall ==
    /\ rw.pc = "idle"
    /\ rw.calls = 0
    /\ rw' = RetryStart(ropts)
    /\ UNCHANGED <<serverVars, sends, ropts, rlog, editor>>

RetryOpOk ==
    /\ rw.pc = "call"
    /\ \E val \in OpValues :
         /\ rw' = RetryCallOk(rw, val)
         /\ rlog' = Append(rlog, OkOutcome(val))
    /\ UNCHANGED <<serverVars, sends, ropts, editor>>

RetryOpFail ==
    /\ rw.pc = "call"
    /\ \E e \in OpErrors :
         /\ rw' = RetryCallFail(rw, ropts, e)
         /\ rlog' = Append(rlog, e)
    /\ UNCHANGED <<serverVars, sends, ropts, editor>>

RetryWait ==
    /\ rw.pc = "wait"
    /\ rw' = RetryDelayDone(rw, ropts)
    /\ UNCHANGED <<serverVars, sends, ropts, rlog, editor>>

\* -------------------------------------------------------------------- specs
\* A page as the seeder's Page.insertMany leaves it (version key 0).
SeededPage ==
    [NoPage EXCEPT !.exists = TRUE, !.title = "t0", !.content = "c0",
                   !.workspaceId = WorkspaceId]

\* The store is empty or holds one seeded page; nothing is cached or in flight.
ServerInit ==
    /\ npages \in {0, 1}
    /\ pages = [p \in PageIds |-> IF p <= npages THEN SeededPage ELSE NoPage]
    /\ cache = [k \in Keys |-> NoEntry]
    /\ reqs = [i \in Reqs |-> FreeReq]
    /\ nreq = 0
    /\ sends = [s \in Sends |-> IdleSend]
    /\ ws = LiveWorkspace

Init ==
    /\ ServerInit
    /\ rw = IdleRetry
    /\ ropts = CreateOpts
    /\ rlog = <<>>
    /\ editor = IdleEditor

Next ==
    \/ Receive
    \/ \E i \in Reqs : UpdateRead(i)
    \/ \E i \in Reqs : UpdateWrite(i)
    \/ \E i \in Reqs : CreateCall(i)
    \/ \E i \in Reqs : CreateDelay(i)

\* The server under requests of any clients.
Spec == Init /\ [][Next]_vars

ClientSteps ==
    \/ \E s \in Sends : ClientFetch(s)
    \/ \E s \in Sends : ClientFetchFail(s)
    \/ \E s \in Sends : ClientResponse(s)
    \/ \E s \in Sends : ClientDelayDone(s)

\* Creates issued through the ApiClient.
PostNext ==
    \/ \E s \in Sends : ClientPost(s)
    \/ ClientSteps
    \/ \E i \in Reqs : CreateCall(i)
    \/ \E i \in Reqs : CreateDelay(i)

SpecPost == Init /\ [][PostNext]_vars

\* Updates issued through the ApiClient, racing with another client's updates.
PutNext ==
    \/ \E s \in Sends : ClientPut(s)
    \/ ClientSteps
    \/ OtherUpdate
    \/ \E i \in Reqs : UpdateRead(i)
    \/ \E i \in Reqs : UpdateWrite(i)

SpecPut == Init /\ [][PutNext]_vars

\* One call of apiClient.post or apiClient.put against any server.
ClientNext ==
    \/ ClientPost(StubSend)
    \/ ClientPut(StubSend)
    \/ StubFetch
    \/ StubFetchFail
    \/ StubResponse
    \/ ClientDelayDone(StubSend)

SpecClient == Init /\ [][ClientNext]_vars

\* fetch settles and the timer of delay() fires.
SpecClientFair == SpecClient /\ WF_vars(ClientNext)

\* A workspace holding 0..MaxSeeded pages is deleted while page requests
\* arrive.
DeleteInit ==
    /\ npages \in 0..MaxSeeded
    /\ pages = [p \in PageIds |-> IF p <= npages THEN SeededPage ELSE NoPage]
    /\ cache = [k \in Keys |-> NoEntry]
    /\ reqs = [i \in Reqs |-> FreeReq]
    /\ nreq = 0
    /\ sends = [s \in Sends |-> IdleSend]
    /\ ws \in {LiveWorkspace, GoneWorkspace}
    /\ rw = IdleRetry
    /\ ropts = CreateOpts
    /\ rlog = <<>>
    /\ editor = IdleEditor

DeleteNext == Next \/ DeleteHook \/ DeleteQuery

SpecDelete == DeleteInit /\ [][DeleteNext]_vars

\* The editor saving page 1 through the ApiClient while another client
\* updates the same page.
EditNext ==
    \/ EditorClick
    \/ EditorSettled
    \/ ClientSteps
    \/ OtherUpdate
    \/ \E i \in Reqs : UpdateRead(i)
    \/ \E i \in Reqs : UpdateWrite(i)

SpecEdit == Init /\ [][EditNext]_vars

\* Requests are answered, fetch settles, timers fire, the component handles
\* the outcome of a save, and the user picks a button of the conflict dialog
\* whenever it is open. Nothing makes the user click Save.
SpecEditFair ==
    /\ SpecEdit
    /\ WF_vars(ClientSteps)
    /\ WF_vars(\E i \in Reqs : UpdateRead(i) \/ UpdateWrite(i))
    /\ WF_vars(EditorSettled)
    /\ WF_vars(editor.conflictError # NoEntry /\ EditorClick)

\* The page list's create button, clicked up to MaxClicks times.
ClickNext ==
    \/ HandleCreatePage
    \/ \E i \in Reqs : CreateCall(i)
    \/ \E i \in Reqs : CreateDelay(i)

SpecClick == Init /\ [][ClickNext]_vars

\* The server under requests of any clients, page deletion included.
PageDeleteNext ==
    \/ Next
    \/ DeletePage

SpecPageDelete == Init /\ [][PageDeleteNext]_vars

\* The server under requests of any clients, create bodies with a __v
\* included.
VersionNext ==
    \/ ReceiveAnyVersion
    \/ \E i \in Reqs : UpdateRead(i)
    \/ \E i \in Reqs : UpdateWrite(i)
    \/ \E i \in Reqs : CreateCall(i)
    \/ \E i \in Reqs : CreateDelay(i)

SpecVersion == Init /\ [][VersionNext]_vars

\* The editor with an onSave that passes the server's answer on unchanged,
\* while another client updates the same page.
EditorAloneNext ==
    \/ EditorClick
    \/ \E s \in Sends : ClientFetch(s)
    \/ OnSaveSettled
    \/ OtherUpdate
    \/ \E i \in Reqs : UpdateRead(i)
    \/ \E i \in Reqs : UpdateWrite(i)

SpecEditorAlone == Init /\ [][EditorAloneNext]_vars

RetryInit ==
    /\ ServerInit
    /\ rw = IdleRetry
    /\ ropts \in [maxRetries : 0..MaxRetriesTried, initialDelay : InitialDelays,
                  maxDelay : MaxDelays, backoffMultiplier : Multipliers]
    /\ rlog = <<>>
    /\ editor = IdleEditor

RetryNext == RetryCall \/ RetryOpOk \/ RetryOpFail \/ RetryWait

SpecRetry == RetryInit /\ [][RetryNext]_vars

\* The awaited operation settles and the timer of delay() fires.
SpecRetryFair == SpecRetry /\ WF_vars(RetryNext)


\* ================================================================== claims
\* Update requests whose write the store applied to page p.
CommittedUpdates(p) ==
    {i \in Reqs : reqs[i].kind = "update" /\ reqs[i].pageId = p
                  /\ reqs[i].commits > 0}

\* C1: in every reachable state the stored version of every page equals the
\* number of update requests whose write was committed to it (0 for a page
\* nobody updated), and no request commits more than once; so every commit
\* raises v by exactly 1 and v is never skipped or decremented.
C1_VersionCountsCommits ==
    /\ \A p \in PageIds :
         pages[p].exists => pages[p].v = Cardinality(CommittedUpdates(p))
    /\ \A i \in Reqs : reqs[i].kind = "update" => reqs[i].commits <= 1

\* Two updates were committed to one page, which is now at version 2.
C1_Witness ==
    \E p \in PageIds :
        pages[p].exists /\ pages[p].v = 2 /\ Cardinality(CommittedUpdates(p)) = 2

\* C2: a step of an update request whose __v differs from the stored version
\* of its page never changes the collection, and when that step is the
\* version comparison after findById resolved, the answer is 409 with
\* serverVersion = the stored version, clientVersion = the submitted __v,
\* serverContent = the stored content and clientContent = the submitted one.
C2_StaleUpdateRejected ==
    [][\A i \in Reqs :
        LET r == reqs[i]
            pg == pages[r.pageId]
            b == reqs'[i].resp.body
        IN  (/\ r.pc \in {"read", "write"}
             /\ reqs'[i] # r
             /\ pg.exists
             /\ pg.v # r.ver)
            => /\ pages' = pages
               /\ (r.pc = "read" /\ ~reqs'[i].storageErr)
                  => /\ reqs'[i].pc = "done"
                     /\ reqs'[i].resp.status = 409
                     /\ b.serverVersion = pg.v
                     /\ b.clientVersion = r.ver
                     /\ b.serverContent = pg.content
                     /\ b.clientContent = r.content]_vars

\* A stale update with __v = 0 against a page at version 1 was answered 409
\* with serverVersion 1 and clientVersion 0.
C2_Witness ==
    \E i \in Reqs :
        /\ reqs[i].pc = "done"
        /\ reqs[i].resp.status = 409
        /\ reqs[i].resp.body.serverVersion = 1
        /\ reqs[i].resp.body.clientVersion = 0
        /\ pages[reqs[i].pageId].v = 1

\* An update that was answered after its version comparison passed and after
\* findOneAndUpdate resolved.
PassedCheck(r) ==
    /\ r.kind = "update"
    /\ r.pc = "done"
    /\ r.ver # Absent
    /\ r.snapV = r.ver
    /\ ~r.storageErr
    /\ ModelValid(r.content)

\* The response shows the updated page at version old + 1.
ShowsNextVersion(r) ==
    /\ r.resp.status = 200
    /\ r.resp.body.data.tag = "page"
    /\ r.resp.body.data.v = r.ver + 1

IsConflict(r) ==
    r.resp.status = 409 /\ "serverVersion" \in DOMAIN r.resp.body

\* C3: of two updates of one page that both read the same version equal to
\* their clientVersion, exactly one is answered with the page at version
\* old + 1 and the other is answered with a conflict.
C3_ExactlyOneWins ==
    \A i, j \in Reqs :
        (/\ i # j
         /\ PassedCheck(reqs[i])
         /\ PassedCheck(reqs[j])
         /\ reqs[i].pageId = reqs[j].pageId
         /\ reqs[i].ver = reqs[j].ver)
        => \/ ShowsNextVersion(reqs[i]) /\ IsConflict(reqs[j])
           \/ ShowsNextVersion(reqs[j]) /\ IsConflict(reqs[i])

\* C4: an update that passed the version comparison and whose conditional
\* write matched no document is answered with a conflict, never as a success.
C4_ZeroMatchIsConflict ==
    \A i \in Reqs :
        (PassedCheck(reqs[i]) /\ reqs[i].commits = 0)
        => IsConflict(reqs[i]) /\ ~reqs[i].resp.body.success


\* A create that arrived after a create with the same X-Request-ID had been
\* answered.
RepeatedCreate(j) ==
    /\ reqs[j].kind = "create"
    /\ reqs[j].pc = "done"
    /\ reqs[j].replayOf # 0
    /\ reqs[reqs[j].replayOf].kind = "create"

RecordsUnder(k) == {p \in PageIds : pages[p].exists /\ pages[p].byKey = k}

\* C5: once a create with request id K has been answered, a later create
\* with K does not run createPage, and after both exactly one record created
\* under K exists.  Stated for a first create that was answered 201.
C5_ExactlyOneRecord ==
    \A j \in Reqs :
        (RepeatedCreate(j) /\ reqs[reqs[j].replayOf].resp.status = 201)
        => ~reqs[j].invoked /\ Cardinality(RecordsUnder(reqs[j].key)) = 1

\* C6: a request whose id already has a cached response is answered with the
\* status and body of the first response under that id.
C6_ReplayVerbatim ==
    \A j \in Reqs :
        (reqs[j].pc = "done" /\ reqs[j].replayOf # 0)
        => /\ reqs[j].resp.status = reqs[reqs[j].replayOf].resp.status
           /\ reqs[j].resp.body = reqs[reqs[j].replayOf].resp.body

\* C7: the records inserted for one logical create issued through the
\* ApiClient number at most one, whatever was re-attempted.
C7_AtMostOneRecord ==
    \A s \in Sends :
        Cardinality({p \in PageIds : pages[p].exists /\ pages[p].bySend = s}) <= 1

\* The attempts of the logical update s that reached the server.
AttemptsOf(s) == {i \in Reqs : reqs[i].pc # "free" /\ reqs[i].send = s}

\* C8: of the attempts of one logical update at most one commits, a commit
\* happens only while the document is at the version the client submitted,
\* and a re-attempt answered after an earlier attempt committed has committed
\* nothing and, unless findById rejected, is answered 409.
C8_RetriedUpdateCommitsOnce ==
    \A s \in Sends :
        /\ Cardinality({i \in AttemptsOf(s) : reqs[i].commits > 0}) <= 1
        /\ \A i \in AttemptsOf(s) :
             /\ reqs[i].commits <= 1
             /\ reqs[i].commits > 0 => reqs[i].wroteAt = reqs[i].ver
        /\ \A i, e \in AttemptsOf(s) :
             (/\ reqs[e].attempt < reqs[i].attempt
              /\ reqs[e].commits > 0
              /\ reqs[i].pc = "done"
              /\ ~reqs[i].storageErr)
             => reqs[i].commits = 0 /\ IsConflict(reqs[i])

\* Errors that are no connection failures, and errors the wrapper retries.
NonTransientErrors == {ValidationErr, CastErr}
TransientErrors ==
    {NetErr, ServerErr, TimeoutErr, RefusedErr, TimedOutErr, ConnMsgErr}

\* C9 (as stated): the operation is re-invoked only after a transient
\* failure, and when an invocation fails with a non-transient error the
\* operation has been invoked exactly once, no wait occurred and that error
\* is thrown.
C9_NonTransientInvokedOnce ==
    /\ \A k \in 1..(Len(rlog) - 1) : rlog[k] \in TransientErrors
    /\ \A k \in 1..Len(rlog) :
         rlog[k] \in NonTransientErrors
         => /\ rw.calls = 1
            /\ rw.waits = <<>>
            /\ rw.pc = "thrown"
            /\ rw.thrown = rlog[k]

\* C9 (amended): the operation is re-invoked only after a transient failure;
\* when an invocation fails with a non-transient error, that invocation is
\* the last, no wait follows it and that error is thrown; when it is the
\* first invocation, the operation has been invoked exactly once and no wait
\* occurred.
C9_NoRetryAfterNonTransient ==
    /\ Len(rlog) = rw.calls
    /\ \A k \in 1..(Len(rlog) - 1) : rlog[k] \in TransientErrors
    /\ \A k \in 1..Len(rlog) :
         rlog[k] \in NonTransientErrors
         => /\ k = rw.calls
            /\ Len(rw.waits) = k - 1
            /\ rw.pc = "thrown"
            /\ rw.thrown = rlog[k]
    /\ (Len(rlog) > 0 /\ rlog[1] \in NonTransientErrors)
       => rw.calls = 1 /\ rw.waits = <<>>

\* A transient failure was retried after one wait, the second invocation
\* failed validation and the wrapper threw that error without a further wait.
C9_Witness ==
    /\ rw.pc = "thrown"
    /\ rw.thrown = ValidationErr
    /\ rw.calls = 2
    /\ rlog[1] \in TransientErrors
    /\ Len(rw.waits) = 1

\* C10: no wait precedes the first invocation, one wait precedes every
\* re-attempt, the k-th wait is min(initialDelay * multiplier^(k-1), maxDelay),
\* and a success returns the operation's value.
C10_BackoffSchedule ==
    /\ Len(rw.waits) =
          IF rw.pc \in {"returned", "thrown"} THEN rw.calls - 1
          ELSE rw.calls
    /\ \A k \in 1..Len(rw.waits) :
          rw.waits[k] =
              Min(ropts.initialDelay * Pow(ropts.backoffMultiplier, k - 1),
                  ropts.maxDelay)
    /\ rw.pc = "returned"
       => rlog[Len(rlog)] = OkOutcome(rw.result) /\ rw.result \in OpValues

\* Three transient failures, then a success at the fourth invocation, with
\* the third wait capped at maxDelay.
C10_Witness ==
    /\ rw.pc = "returned"
    /\ rw.calls = 4
    /\ \A k \in 1..3 : rlog[k] \in TransientErrors
    /\ rw.waits = <<3000, 6000, 10000>>
    /\ ropts.maxDelay = 10000


AllTransient == \A k \in 1..Len(rlog) : rlog[k] \in TransientErrors

C11_Exhausted ==
    /\ rw.calls <= ropts.maxRetries + 1
    /\ (AllTransient /\ rw.calls = ropts.maxRetries + 1) => rw.pc = "thrown"
    /\ (AllTransient /\ rw.pc = "thrown")
       => /\ rw.calls = ropts.maxRetries + 1
          /\ Len(rw.waits) = ropts.maxRetries
          /\ rw.thrown = rlog[Len(rlog)]

\* C11: the wrapper terminates; when every invocation failed transiently the
\* operation was invoked exactly maxRetries + 1 times, no wait follows the
\* final failure and the error thrown is the error of the last invocation.
C11_ExhaustionTerminates ==
    /\ []C11_Exhausted
    /\ <>(rw.pc \in {"returned", "thrown"})

\* Four transient failures with maxRetries = 3, the last one different from
\* the first, and the last one is thrown.
C11_Witness ==
    /\ rw.pc = "thrown"
    /\ ropts.maxRetries = 3
    /\ rw.calls = 4
    /\ AllTransient
    /\ rlog[4] # rlog[1]
    /\ rw.thrown = rlog[4]
    /\ Len(rw.waits) = 3


\* C12: when retryMongoOperation gives up on a create after maxRetries + 1
\* failures it classified as connection errors, createPage answers 503 with
\* a retryAfter value.
C12_ExhaustedCreateIs503 ==
    \A i \in Reqs :
        (/\ reqs[i].kind = "create"
         /\ reqs[i].pc = "done"
         /\ reqs[i].rw.pc = "thrown"
         /\ isMongoConnectionError(reqs[i].rw.thrown)
         /\ reqs[i].rw.calls = CreateOpts.maxRetries + 1)
        => /\ reqs[i].resp.status = 503
           /\ Field(reqs[i].resp.body, "retryAfter", 0) > 0


RetryableStatuses == {429, 502, 503, 504}
NonRetryableStatuses == {400, 401, 403, 404, 409}

\* C13: a re-attempt is scheduled only after a transport failure (status 0)
\* or a response with status 429, 502, 503 or 504; a response with status
\* 400, 401, 403, 404 or 409 ends the call without a wait, and when it answers
\* the first attempt exactly one fetch was made and no wait occurred.
C13_RetryOnlyTransient ==
    \A s \in Sends :
        LET c == sends[s] IN
        /\ Len(c.delays) =
              IF c.pc = "backoff" THEN c.retryCount + 1 ELSE c.retryCount
        /\ c.fetches <= c.retryCount + 1
        /\ c.pc = "backoff" => c.status \in {0} \cup RetryableStatuses
        /\ c.status \in NonRetryableStatuses
           => /\ c.pc = "thrown"
              /\ c.fetches = c.retryCount + 1
              /\ c.retryCount = 0 => (c.fetches = 1 /\ c.delays = <<>>)

\* A 409 answered the first attempt: one fetch, no wait, the call has thrown.
C13_Witness ==
    /\ sends[StubSend].pc = "thrown"
    /\ sends[StubSend].status = 409
    /\ sends[StubSend].fetches = 1
    /\ sends[StubSend].delays = <<>>

C14_Bounded ==
    LET c == sends[StubSend] IN
    /\ c.fetches <= ClientOpts.maxRetries + 1
    /\ c.retryCount <= ClientOpts.maxRetries
    /\ c.fetches = IF c.pc \in {"idle", "ready"} THEN c.retryCount
                   ELSE c.retryCount + 1
    /\ c.pc = "backoff" => c.retryCount < ClientOpts.maxRetries
    /\ (/\ Terminated(c)
        /\ \/ c.status = 0
           \/ c.status \in RetryableStatuses /\ c.body # NoEntry)
       => c.pc = "thrown" /\ c.retryCount = ClientOpts.maxRetries

\* C14: whatever mix of transport failures and retryable statuses occurs, one
\* call makes at most maxRetries + 1 fetches, the count grows by one with
\* every re-attempt, a transient failure at count maxRetries ends the call
\* as failed, and the call ends: it returns data or throws.
C14_ClientTerminates ==
    /\ []C14_Bounded
    /\ <>Terminated(sends[StubSend])

\* Four attempts mixing transport failures and retryable statuses, the last
\* one a transient failure that ends the call.
C14_Witness ==
    LET c == sends[StubSend] IN
    /\ c.pc = "thrown"
    /\ c.fetches = 4
    /\ c.status = 0
    /\ c.delays = <<1000, 5000, 4000>>

\* C15: after a retryable response the wait is min(h * 1000, maxDelay) when
\* the body carries a retry-after hint h, whatever its value, and
\* min(initialDelay * multiplier^retryCount, maxDelay) when it carries none.
C15_HintOrBackoff ==
    LET c == sends[StubSend] IN
    (c.pc = "backoff" /\ c.status # 0)
    => c.delays[Len(c.delays)] =
          IF "retryAfter" \in DOMAIN c.body
          THEN Min(c.body.retryAfter * 1000, ClientOpts.maxDelay)
          ELSE Min(ClientOpts.initialDelay
                     * Pow(ClientOpts.backoffMultiplier, c.retryCount),
                   ClientOpts.maxDelay)

\* C16: after a 503 carrying retryAfter = r seconds the wait before the next
\* attempt is at least r seconds.
C16_WaitsAtLeastHint ==
    LET c == sends[StubSend] IN
    (c.pc = "backoff" /\ c.status = 503 /\ "retryAfter" \in DOMAIN c.body)
    => c.delays[Len(c.delays)] >= c.body.retryAfter * 1000


DescriptorFields ==
    {"serverVersion", "clientVersion", "serverContent", "clientContent"}

\* C17: a 409 carrying a conflict descriptor is not re-attempted, the call
\* throws, and the error thrown carries the descriptor's serverVersion,
\* clientVersion, serverContent and clientContent.
C17_ConflictSurfaced ==
    \A s \in Sends :
        LET c == sends[s] IN
        (c.pc = "thrown" /\ c.status = 409 /\ IsConflict(reqs[c.cur]))
        => /\ c.fetches = c.retryCount + 1
           /\ \A f \in DescriptorFields :
                /\ f \in DOMAIN c.error
                /\ c.error[f] = reqs[c.cur].resp.body[f]

\* The editor's last save was answered 409.
SaveConflicted ==
    /\ editor.pc = "idle"
    /\ editor.saves > 0
    /\ sends[EditorSend].status = 409

\* C18: after a save or a resubmission answered 409 the editor holds the
\* descriptor of that response and offers the choice; a resubmission carries
\* the local title and content with __v equal to the reported serverVersion.
C18_ConflictOffersChoiceAgain ==
    /\ SaveConflicted
       => /\ editor.conflictError # NoEntry
          /\ Field(editor.conflictError, "serverVersion", Absent)
                = sends[EditorSend].body.serverVersion
    /\ (editor.pc = "saving" /\ editor.err # NoEntry
        /\ "serverVersion" \in DOMAIN editor.err)
       => /\ sends[EditorSend].ver = editor.err.serverVersion
          /\ sends[EditorSend].title = editor.title
          /\ sends[EditorSend].content = editor.content

\* The editor's edit has been committed by one of its requests.
EditorCommitted ==
    \E i \in Reqs : reqs[i].send = EditorSend /\ reqs[i].commits > 0

\* C19: after a conflict response, once no other writer commits any more, the
\* overwrite choice resubmits with the reported serverVersion and the edit is
\* eventually committed.
C19_OverwriteEventuallyCommits == SaveConflicted ~> EditorCommitted


\* C20: when deleteWorkspace answers 200 for workspace W, no page referencing
\* W is in storage, however many pages W held.
C20_NoPageRemains ==
    [][(ws.pc # "done" /\ ws'.pc = "done" /\ ws'.status = 200)
       => \A p \in PageIds : ~References(pages'[p], WorkspaceId)]_vars


\* The request has removed the workspace document.
Removed == ws.existed /\ ~ws.exists

\* C21: the workspace document is removed only after Page.deleteMany of the
\* hook has succeeded; when deleteMany fails, the request is answered without
\* the workspace being removed.
C21_PagesFirst ==
    /\ Removed => ws.hook = "ok"
    /\ ws.pc = "query" => ws.hook = "ok"
    /\ ws.hook = "failed"
       => ws.pc = "done" /\ ws.status = 500 /\ ws.exists = ws.existed

\* deleteMany failed for an existing workspace that still has a page: the
\* request is over and the workspace is still there.
C21_Witness ==
    /\ ws.hook = "failed"
    /\ ws.pc = "done"
    /\ ws.existed
    /\ ws.exists
    /\ \E p \in PageIds : References(pages[p], WorkspaceId)


\* The body the middleware answers a cache hit with.
IsReplay(body) == Field(body, "message", "") = "Request processed successfully"

\* C22: a request without X-Request-ID is passed on by the middleware (it is
\* validated and handled, never answered from the cache), and no step of its
\* handling, arrival and response included, changes requestCache.
C22_NoIdNeverCached ==
    [][\A i \in Reqs :
         (reqs'[i] # reqs[i] /\ reqs'[i].key = NoKey)
         => /\ cache' = cache
            /\ reqs'[i].pc = "done" => ~IsReplay(reqs'[i].resp.body)
            /\ reqs[i].pc = "free"
               => (reqs'[i].invoked \/ reqs'[i].resp.status = 400)]_vars

\* Two identical creates without request id were both answered 201, two
\* records exist and nothing is cached.
C22_Witness ==
    \E i, j \in Reqs :
        /\ i # j
        /\ \A k \in {i, j} :
             /\ reqs[k].kind = "create"
             /\ reqs[k].key = NoKey
             /\ reqs[k].pc = "done"
             /\ reqs[k].resp.status = 201
        /\ reqs[i].title = reqs[j].title
        /\ reqs[i].content = reqs[j].content
        /\ Cardinality({p \in PageIds : pages[p].exists /\ pages[p].byReq \in {i, j}}) = 2
        /\ \A k \in Keys : cache[k] = NoEntry


\* C23: once a response is stored under a request id, no later response
\* replaces it.
C23_FirstWriterWins ==
    [][\A k \in Keys : cache[k] # NoEntry => cache'[k] = cache[k]]_vars


\* C24: an update without __v that reaches the handler is handled as an
\* update with __v = 0: against a page read at version 0 it commits and
\* answers 200, and against a page read at a higher version it answers a
\* conflict.
C24_AbsentVersionIsZero ==
    \A i \in Reqs :
        LET r == reqs[i] IN
        (/\ r.kind = "update"
         /\ r.ver = Absent
         /\ r.pc = "done"
         /\ r.invoked
         /\ r.resp.status \in {200, 409})
        => IF r.snapV = 0
           THEN r.commits = 1 /\ r.resp.status = 200
           ELSE IsConflict(r) /\ r.commits = 0


\* C25: an update is answered with a storage error only after the retry
\* wrapper has run the failing storage call maxRetries + 1 times, with a
\* wait between consecutive calls.
C25_UpdateStorageRetried ==
    \A i \in Reqs :
        LET r == reqs[i] IN
        (r.kind = "update" /\ r.pc = "done" /\ r.storageErr)
        => /\ r.rw.calls = CreateOpts.maxRetries + 1
           /\ Len(r.rw.waits) = CreateOpts.maxRetries


\* C26: the cache holds only responses of successful handlings: no entry is
\* a failure body, and a request that finds no entry for its id is handed to
\* the controller.
C26_OnlySuccessCached ==
    \A k \in Keys :
        cache[k] # NoEntry => Field(cache[k], "success", FALSE) = TRUE


ClickReqs == {i \in Reqs : reqs[i].send = ClickSend}

\* C27: two creates sent by clicks on the create button carry the same
\* request id, the later one is answered from the cache, and together they
\* leave exactly one page.
C27_DoubleClickOnePage ==
    \A i, j \in ClickReqs :
        (i < j /\ reqs[i].pc = "done" /\ reqs[i].resp.status = 201
               /\ reqs[j].pc = "done")
        => /\ reqs[i].key # NoKey
           /\ reqs[j].key = reqs[i].key
           /\ IsReplay(reqs[j].resp.body)
           /\ Cardinality({p \in PageIds :
                  pages[p].exists /\ pages[p].byReq \in {i, j}}) = 1


\* A page of the workspace that a deleteMany has removed.
RemovedPage(pg, id) == ~pg.exists /\ pg.workspaceId = id

\* C28: when a delete-workspace request has been answered, either the
\* workspace and all its pages are gone, or the request has changed nothing:
\* the workspace is as it was and none of its pages has been removed.
C28_AllOrNothing ==
    ws.pc = "done"
    => \/ /\ ~ws.exists
          /\ \A p \in PageIds : ~References(pages[p], WorkspaceId)
       \/ /\ ws.exists = ws.existed
          /\ \A p \in PageIds : ~RemovedPage(pages[p], WorkspaceId)


\* Delete-page requests answered 200.
Deletes ==
    {d \in Reqs : /\ reqs[d].kind = "delete"
                  /\ reqs[d].pc = "done"
                  /\ reqs[d].resp.status = 200}

\* C29: a delete-page request answered 200 has removed the page, whatever
\* its version, and the page is never there again; an update of that page
\* which arrives after the delete and reaches updatePage without a storage
\* failure is answered 404 and writes nothing.
C29_DeletedStaysDeleted ==
    \A d \in Deletes :
        /\ ~pages[reqs[d].pageId].exists
        /\ \A u \in Reqs :
             (/\ u > d
              /\ reqs[u].kind = "update"
              /\ reqs[u].pageId = reqs[d].pageId
              /\ reqs[u].invoked
              /\ reqs[u].pc = "done"
              /\ ~reqs[u].storageErr)
             => /\ reqs[u].resp.status = 404
                /\ reqs[u].commits = 0

C29_Witness ==
    \E d \in Deletes, u \in Reqs :
        /\ reqs[d].snapV > 0
        /\ u > d
        /\ reqs[u].kind = "update"
        /\ reqs[u].pageId = reqs[d].pageId
        /\ reqs[u].ver = reqs[d].snapV
        /\ reqs[u].pc = "done"
        /\ reqs[u].resp.status = 404
        /\ ~pages[reqs[d].pageId].exists


\* Updates that have written the page.
Committed == {i \in Reqs : reqs[i].kind = "update" /\ reqs[i].commits > 0}

\* A step that changes title, content or version of an existing page is the
\* write of an update whose __v equals the stored version at that step, and
\* it raises the version by exactly one.
VersionCheckedWrite ==
    \A p \in PageIds :
        (pages[p].exists /\ pages'[p] # pages[p])
        => \E i \in Reqs :
             /\ reqs[i].pc = "write"
             /\ reqs'[i].pc = "done"
             /\ reqs[i].pageId = p
             /\ reqs[i].ver = pages[p].v
             /\ pages'[p] = [pages[p] EXCEPT !.title = reqs[i].title,
                                             !.content = reqs[i].content,
                                             !.v = pages[p].v + 1]

\* C30: title and content are written only by an update whose __v equals
\* the stored version at the instant of the write, in one step with the
\* increment; no two committed updates of a page wrote at the same version,
\* and every committed update wrote at the version it had read.
C30_AtomicVersionedWrite ==
    /\ [][VersionCheckedWrite]_vars
    /\ [](\A i, j \in Committed :
            (i # j /\ reqs[i].pageId = reqs[j].pageId)
            => reqs[i].wroteAt # reqs[j].wroteAt)
    /\ [](\A i \in Committed :
            reqs[i].commits = 1 /\ reqs[i].wroteAt = reqs[i].snapV)

C30_Witness ==
    \E i, j \in Reqs :
        /\ i # j
        /\ reqs[i].kind = "update" /\ reqs[j].kind = "update"
        /\ reqs[i].pageId = reqs[j].pageId
        /\ reqs[i].snapV = 0 /\ reqs[j].snapV = 0
        /\ reqs[i].ver = 0 /\ reqs[j].ver = 0
        /\ reqs[i].content # reqs[j].content
        /\ reqs[i].pc = "done" /\ reqs[i].commits = 1
        /\ reqs[j].pc = "done" /\ reqs[j].commits = 0
        /\ reqs[j].invoked /\ ~reqs[j].storageErr
        /\ reqs[j].resp.status = 200
        /\ pages[reqs[i].pageId].v = 1
        /\ pages[reqs[i].pageId].content = reqs[i].content


\* C31: a step in which an update commits changes nothing but title, content
\* and version of its target page: the page's other fields, every other
\* page, the page count and the workspace are as before.
C31_UpdateFrame ==
    [][\A i \in Reqs :
         (reqs[i].kind = "update" /\ reqs'[i].commits > reqs[i].commits)
         => LET p == reqs[i].pageId IN
            /\ \A q \in PageIds \ {p} : pages'[q] = pages[q]
            /\ pages'[p] = [pages[p] EXCEPT !.title = pages'[p].title,
                                            !.content = pages'[p].content,
                                            !.v = pages'[p].v]
            /\ npages' = npages
            /\ ws' = ws]_vars

C31_Witness ==
    \E i \in Reqs, q \in PageIds :
        /\ reqs[i].kind = "update"
        /\ reqs[i].commits = 1
        /\ reqs[i].resp.status = 200
        /\ q # reqs[i].pageId
        /\ pages[q].exists
        /\ pages[reqs[i].pageId].title = reqs[i].title
        /\ pages[reqs[i].pageId].title # SeededPage.title
        /\ pages[reqs[i].pageId].workspaceId = WorkspaceId


\* C32: a page enters storage at version 0 whatever version its create body
\* carried, and the version of a stored page changes only by +1, in the step
\* in which an update of that page commits.
C32_VersionServerOwned ==
    [][\A p \in PageIds :
         /\ (~pages[p].exists /\ pages'[p].exists) => pages'[p].v = 0
         /\ (pages[p].exists /\ pages'[p].exists /\ pages'[p].v # pages[p].v)
            => /\ pages'[p].v = pages[p].v + 1
               /\ \E i \in Reqs :
                    /\ reqs[i].kind = "update"
                    /\ reqs[i].pageId = p
                    /\ reqs'[i].commits = reqs[i].commits + 1]_vars

C32_Witness ==
    \E p \in PageIds :
        /\ pages[p].exists
        /\ pages[p].byReq # 0
        /\ reqs[pages[p].byReq].kind = "create"
        /\ reqs[pages[p].byReq].ver = 1
        /\ reqs[pages[p].byReq].resp.status = 201
        /\ pages[p].v = 0


\* Request j arrived with the id of request i while i was being handled.
ArrivedDuring(i, j) ==
    /\ i < j
    /\ reqs[i].key # NoKey
    /\ reqs[j].key = reqs[i].key
    /\ reqs[j].pc # "free"
    /\ reqs[j].replayOf = 0

\* C33: when a create with request id K arrives while an earlier create with
\* K and the same body is still being handled, createPage runs for one of
\* them only, one record is created under K, and both are answered alike.
C33_Coalesced ==
    \A i, j \in Reqs :
        (/\ ArrivedDuring(i, j)
         /\ reqs[i].kind = "create" /\ reqs[j].kind = "create"
         /\ reqs[j].title = reqs[i].title
         /\ reqs[j].content = reqs[i].content
         /\ reqs[i].pc = "done" /\ reqs[j].pc = "done"
         /\ reqs[i].resp.status = 201)
        => /\ ~reqs[j].invoked
           /\ Cardinality(RecordsUnder(reqs[i].key)) = 1
           /\ reqs[j].resp.body \in
                  {reqs[i].resp.body, ReplayBody(reqs[i].resp.body)}


\* The editor's requests that were answered with a conflict.
EditorConflicts ==
    {i \in Reqs : reqs[i].send = EditorSend /\ IsConflict(reqs[i])}

\* C34: conflict round trips of one edit are capped: once MaxSaves saves of
\* the editor in a row have each been answered with a conflict, the editor
\* shows the terminal "could not converge" error.
C34_ConflictCap ==
    (/\ editor.pc = "idle"
     /\ editor.saves = MaxSaves
     /\ Cardinality(EditorConflicts) = MaxSaves)
    => editor.toast = "could not converge"


\* C35: a request that arrives with a request id under which a response is
\* stored is answered at once with that response wrapped as a replay,
\* whatever its kind, target or body; its handler does not run, and neither
\* the cache nor the pages change.
C35_KeyedByIdAlone ==
    [][\A j \in Reqs :
         (/\ reqs[j].pc = "free"
          /\ reqs'[j].pc # "free"
          /\ reqs'[j].key # NoKey
          /\ cache[reqs'[j].key] # NoEntry)
         => /\ reqs'[j].pc = "done"
            /\ ~reqs'[j].invoked
            /\ reqs'[j].resp.status = 200
            /\ reqs'[j].resp.body = ReplayBody(cache[reqs'[j].key])
            /\ cache' = cache
            /\ pages' = pages]_vars

C35_Witness ==
    \E i, j \in Reqs :
        /\ i < j
        /\ reqs[i].kind = "create"
        /\ reqs[i].resp.status = 201
        /\ reqs[j].kind = "update"
        /\ reqs[j].key = reqs[i].key
        /\ reqs[j].key # NoKey
        /\ reqs[j].title # reqs[i].title
        /\ reqs[j].pc = "done"
        /\ ~reqs[j].invoked
        /\ reqs[j].resp.body = ReplayBody(reqs[i].resp.body)


\* C36: no page is an orphan: for a workspace that existed when its delete
\* request could first arrive, every stored page that references it finds
\* it in storage.
C36_NoOrphanPages ==
    ws.existed
    => \A p \in PageIds : References(pages[p], WorkspaceId) => ws.exists


\* What ApiClient.request makes of the response to request r.
Returned(r) == HandleResponse(IdleSend, r.resp.status, r.resp.body)

C38_SavedMeansCommitted ==
    (editor.pc = "idle" /\ editor.toast = "saved") => EditorCommitted


====
